---------------------------- MODULE Spec2Model ----------------------------
(***************************************************************************)
(* A model of the Squire frontend and launcher scripts.                    *)
(*                                                                         *)
(*   - services/api.ts      : the fetch wrapper and the four endpoints     *)
(*   - pages/Dashboard.tsx  : the two Dashboard variants (agents trigger,  *)
(*                            analysis start + manager report)             *)
(*   - hooks/useApi.ts      : the generic data hook                        *)
(*   - hooks/useBackendHealth : the health poller                          *)
(*   - app/router.tsx       : the route table and <Routes>                 *)
(*   - scripts/start-backend.sh : the venv selection and launch            *)
(*                                                                         *)
(* JavaScript values are tagged records [t |-> tag, v |-> payload]; a      *)
(* JavaScript string is a sequence of text chunks, so that the empty       *)
(* string, concatenation and substring search are computed, not assumed.   *)
(***************************************************************************)
EXTENDS Integers, Sequences, FiniteSets, TLC

VARIABLES
    \* ---- Dashboard component state (useState cells) ----
    variant,          \* which Dashboard source is mounted: "agents" | "analysis"
    isLoading, prResult, meetingResult, managerResult, error,
    isLoadingReport, report, reportError,
    \* ---- the network: requests sent by fetch() and not yet settled ----
    net,
    \* ---- history: what the last step of the frontend did ----
    lastStep,         \* [action, sent, failed]
    lastTrigger,      \* outcome of the last settled trigger request, or Idle/Pending
    lastReport,       \* outcome of the last settled report request, or Idle/Pending
    \* ---- useApi hook instance ----
    hook,             \* [mounted, endpoint, data, loading, error]
    \* ---- one call of an api method, followed from the call to its settling ----
    apiPc,            \* "idle" | "awaiting" | "settled"
    apiCall,          \* [site, fn, arg]
    apiSent,          \* the requests the call handed to fetch()
    apiFetched,       \* what fetch() settled with
    apiOutcome,       \* what the promise returned by the api method settled with
    \* ---- useBackendHealth: the health poller and the backend it polls ----
    health,           \* the hook's state: [status, service, version]
    healthNet,        \* health checks sent and not yet settled
    backendUp,        \* whether GET /health answers 200 at present
    outages,          \* how often the backend has gone down so far
    okSinceUp,        \* health checks settled since the backend last came up
    \* ---- the router ----
    location,         \* the pathname: [segments, trailingSlash]
    rendered,         \* the page components <Routes> renders for it, in order
    \* ---- scripts/start-backend.sh ----
    host,             \* the machine: interpreters on PATH, whether venv creation and
                      \* pip install succeed
    fs,               \* backend/venv, backend/env and the system site-packages
    sh,               \* the shell running the script: [pc, PYTHON_CMD, VENV_PYTHON,
                      \* activated, hashed, launched]
    \* ---- the other scripts, each with its machine and its shell in one record ----
    sam,              \* scripts/start-sam.sh
    dev,              \* dev.sh, its database setup
    agents            \* the local agents launcher

dashVars == <<variant, isLoading, prResult, meetingResult, managerResult, error,
              isLoadingReport, report, reportError, lastTrigger, lastReport>>
frontVars == <<dashVars, net, lastStep, hook>>
apiVars == <<apiPc, apiCall, apiSent, apiFetched, apiOutcome>>

\* what a step of one part of the model leaves alone
healthVars == <<health, healthNet, backendUp, outages, okSinceUp>>
routeVars == <<location, rendered>>
scriptVars == <<host, fs, sh>>
otherScripts == <<sam, dev, agents>>
restOfFront == <<apiVars, healthVars, routeVars, scriptVars, otherScripts>>
restOfApi == <<frontVars, healthVars, routeVars, scriptVars, otherScripts>>
restOfHealth == <<frontVars, apiVars, routeVars, scriptVars, otherScripts>>
restOfRoutes == <<frontVars, apiVars, healthVars, scriptVars, otherScripts>>
restOfScript == <<frontVars, apiVars, healthVars, routeVars, otherScripts>>
restOfSam == <<frontVars, apiVars, healthVars, routeVars, scriptVars, dev, agents>>
restOfDev == <<frontVars, apiVars, healthVars, routeVars, scriptVars, sam, agents>>
restOfAgents == <<frontVars, apiVars, healthVars, routeVars, scriptVars, sam, dev>>

-----------------------------------------------------------------------------
(* JavaScript values *)

Undefined == [t |-> "undefined"]
Null      == [t |-> "null"]
Str(s)    == [t |-> "string", v |-> s]
Num(n)    == [t |-> "number", v |-> n]
Bool(b)   == [t |-> "boolean", v |-> b]
Obj(f)    == [t |-> "object", v |-> f]
Arr(s)    == [t |-> "array", v |-> s]
\* An Error object: instanceof Error is true, .message is its message
ErrorObj(msg) == [t |-> "error", v |-> msg]

EmptyString == Str(<<>>)

\* ToBoolean: what `x && ...`, `x || ...` and `!x` test
Truthy(x) ==
    CASE x.t = "undefined" -> FALSE
      [] x.t = "null"      -> FALSE
      [] x.t = "string"    -> x.v # <<>>
      [] x.t = "number"    -> x.v # 0
      [] x.t = "boolean"   -> x.v
      [] OTHER             -> TRUE

IsNullish(x) == x.t \in {"undefined", "null"}


-----------------------------------------------------------------------------
(* services/api.ts *)

\* String(n) for the small non-negative integers the model sends
Digit(d) == <<"0", "1", "2", "3", "4", "5", "6", "7", "8", "9">>[d + 1]

RECURSIVE NumberToString(_)
NumberToString(n) ==
    IF n < 10 THEN <<Digit(n)>> ELSE NumberToString(n \div 10) \o <<Digit(n % 10)>>

\* JSON.stringify of an object with the single numeric property `key`
JsonStringify(key, n) == <<"{", "\"", key, "\"", ":">> \o NumberToString(n) \o <<"}">>

\* the request fetch() is given by api.request(endpoint, options):
\* options are spread first, then the headers with Content-Type defaulted
NoOptions == [method |-> "GET", body |-> <<>>, contentType |-> ""]

ApiRequestInit(endpoint, options) ==
    [ endpoint    |-> endpoint,
      method      |-> options.method,
      body        |-> options.body,
      contentType |-> IF options.contentType # "" THEN options.contentType
                      ELSE "application/json" ]

healthCheck == ApiRequestInit("/health", NoOptions)

triggerAgents ==
    ApiRequestInit("/api/agents/trigger", [NoOptions EXCEPT !.method = "POST"])

DefaultPrCount == 3

startAnalysisNoDefault(arg) ==
    ApiRequestInit("/api/analysis/start",
        [NoOptions EXCEPT !.method = "POST",
                          !.body = JsonStringify("pr_count",
                                     IF arg.t = "undefined" THEN 0 ELSE arg.v)])

\* startAnalysis(prCount: number = 3): the default applies to an omitted argument
startAnalysis(arg) ==
    LET prCount == IF arg.t = "undefined" THEN DefaultPrCount ELSE arg.v
    IN  ApiRequestInit("/api/analysis/start",
            [NoOptions EXCEPT !.method = "POST",
                              !.body = JsonStringify("pr_count", prCount)])

getManagerReport == ApiRequestInit("/api/analysis/report", NoOptions)

\* What fetch() settles with: a rejection carrying a thrown value, or a Response
FetchRejected(thrown) == [kind |-> "rejected", thrown |-> thrown]
FetchResponse(ok, statusText, body) ==
    [kind |-> "response", ok |-> ok, statusText |-> statusText, body |-> body]

\* A response body: JSON text that parses to `json`, or text that does not parse
JsonBody(json) == [syntaxOk |-> TRUE, json |-> json]
BadBody        == [syntaxOk |-> FALSE, json |-> Undefined]

\* What an awaited promise settles with
Resolved(value)  == [kind |-> "resolved", value |-> value]
Rejected(thrown) == [kind |-> "rejected", thrown |-> thrown]

\* response.json(): the parsed body, or a rejection with a SyntaxError
ResponseJson(body) ==
    IF body.syntaxOk THEN Resolved(body.json)
    ELSE Rejected(ErrorObj(<<"Unexpected token in JSON">>))

ApiRequestOkInverted(fetched) ==
    IF fetched.kind = "rejected" THEN Rejected(fetched.thrown)
    ELSE IF fetched.ok
         THEN Rejected(ErrorObj(<<"API error: ">> \o fetched.statusText))
         ELSE ResponseJson(fetched.body)

ApiRequestNoOkCheck(fetched) ==
    IF fetched.kind = "rejected" THEN Rejected(fetched.thrown)
    ELSE ResponseJson(fetched.body)

\* api.request after `await fetch(...)`: throw on !response.ok, else response.json()
ApiRequest(fetched) ==
    IF fetched.kind = "rejected" THEN Rejected(fetched.thrown)
    ELSE IF ~fetched.ok
         THEN Rejected(ErrorObj(<<"API error: ">> \o fetched.statusText))
         ELSE ResponseJson(fetched.body)

\* `err instanceof Error ? err.message : fallback`
MessageOf(thrown, fallback) ==
    IF thrown.t = "error" THEN Str(thrown.v) ELSE Str(fallback)

-----------------------------------------------------------------------------
(* String helpers used by the Dashboard *)

\* String.prototype.toLowerCase, chunk by chunk
LowerChar(c) ==
    CASE c = "H" -> "h" [] c = "E" -> "e" [] c = "L" -> "l" [] c = "O" -> "o"
      [] c = "W" -> "w" [] c = "R" -> "r" [] c = "D" -> "d"
      [] OTHER -> c

ToLowerCaseIdentity(s) == s

ToLowerCase(s) == [i \in DOMAIN s |-> LowerChar(s[i])]

\* String.prototype.includes: `sub` occurs in `s` as a contiguous run
Includes(s, sub) ==
    \E k \in 0..(Len(s) - Len(sub)) : \A j \in 1..Len(sub) : s[k + j] = sub[j]

HelloWorld == <<"h", "e", "l", "l", "o", " ", "w", "o", "r", "l", "d">>
WorldHello == <<"w", "o", "r", "l", "d", " ", "h", "e", "l", "l", "o">>

\* obj.field on a non-nullish value: the property, or undefined when absent
Get(obj, field) ==
    IF obj.t = "object" /\ field \in DOMAIN obj.v THEN obj.v[field] ELSE Undefined

RemoveAt(seq, i) == SubSeq(seq, 1, i - 1) \o SubSeq(seq, i + 1, Len(seq))

-----------------------------------------------------------------------------
(* The backend as the frontend sees it: what fetch() may settle with *)

\* result texts POST /api/agents/trigger may carry
ResultTexts ==
    { <<>>,
      HelloWorld,
      <<"W", "o", "r", "l", "d", " ", "H", "e", "l", "l", "o">>,
      <<"H", "E", "L", "L", "O", " ", "w", "o", "r", "l", "d", " ", "h", "e", "l", "l", "o">>,
      <<"n", "o", " ", "o", "u", "t", "p", "u", "t">> }

\* a report in the nested shape the renderer reads, in the flat shape the
\* ManagerReport interface declares, and a JSON null
NestedReport ==
    Obj([ report    |-> Obj([report |-> Obj([executive_summary |-> Str(<<"summary">>)])]),
          timestamp |-> Str(<<"2025-01-01T00:00:00Z">>),
          status    |-> Str(<<"complete">>) ])
FlatReport ==
    Obj([ report    |-> Obj([executive_summary |-> Str(<<"summary">>)]),
          timestamp |-> Str(<<"2025-01-01T00:00:00Z">>),
          status    |-> Str(<<"complete">>) ])

\* items of the lists a report carries
Item(k) == Str(<<"item ", NumberToString(k)>>)

ManyItems == 6

PrSummaries ==
    LET pr(pa) == [ url |-> Str(<<"https://github.com/o/r/pull/1">>), pr_number |-> Num(1),
                    title |-> Str(<<"title">>), complexity |-> Str(<<"high">>),
                    risk_level |-> Str(<<"low">>), summary |-> Str(<<"text">>),
                    patch_analysis |-> pa ]
    IN  { Undefined, Arr(<<>>),
          Arr(<< Obj([url |-> Str(<<"https://github.com/o/r/pull/2">>)]) >>),
          Arr(<< Obj(pr(Obj([features_detected |-> Arr(<<>>)]))),
                 Obj(pr(Obj([features_detected |-> Arr(<<Str(<<"auth">>)>>)]))) >>) }

MeetingSummaries ==
    { Undefined, Arr(<<>>),
      Arr(<< Obj([doc_url |-> Str(<<"https://docs/1">>), summary |-> Str(<<"text">>)]) >>),
      Arr(<< Obj([doc_url |-> Str(<<"https://docs/2">>), summary |-> Str(<<"text">>),
                  action_items |-> Arr([k \in 1..ManyItems |-> Item(k)])]),
             Obj([doc_url |-> Str(<<"https://docs/3">>), summary |-> Str(<<"text">>),
                  action_items |-> Arr(<<>>)]) >>) }

ReportFields ==
    << "executive_summary", "pr_insights", "meeting_insights", "recommendations",
       "action_items", "detailed_pr_summaries", "detailed_meeting_summaries" >>

\* an object with the given fields; a field whose value is undefined is absent,
\* as JSON carries no undefined
ObjectOf(values) ==
    LET present == { k \in DOMAIN values : values[k] # Undefined }
        names   == { ReportFields[k] : k \in present }
    IN  Obj([ n \in names |-> values[CHOOSE k \in present : ReportFields[k] = n] ])

\* the inner report objects the manager agent may produce: every field absent,
\* null, empty or filled
InnerReports ==
    { ObjectOf(<<es, pi, mi, rec, ai, dpr, dm>>) :
        es  \in { Undefined, Null, EmptyString, Str(<<"summary">>) },
        pi  \in { Undefined, Null, Obj([total_prs |-> Num(2)]) },
        mi  \in { Undefined, Obj(<<>>), Obj([documents_analyzed |-> Num(1)]) },
        rec \in { Undefined, Null, Arr(<<>>), Arr(<<Item(1)>>) },
        ai  \in { Undefined, Arr(<<>>), Arr(<<Item(1)>>), Arr(<<Item(1), Item(2)>>) },
        dpr \in PrSummaries,
        dm  \in MeetingSummaries }

Envelope(inner, ts) ==
    IF ts = Undefined
    THEN Obj([ report |-> inner, status |-> Str(<<"complete">>) ])
    ELSE Obj([ report |-> inner, timestamp |-> ts, status |-> Str(<<"complete">>) ])

\* the bodies GET /api/analysis/report may answer with: the manager result
\* wrapping the inner report, the inner report directly, and results with the
\* enclosing objects missing
ReportShapes ==
    { Envelope(Obj([report |-> inner]), Str(<<"2025-01-01T00:00:00Z">>)) :
        inner \in InnerReports }
    \cup { Envelope(inner, ts) :
             inner \in { Undefined, Null, Obj(<<>>), Obj([report |-> Null]),
                         Obj([report |-> Obj(<<>>)]), Str(<<"no report">>) },
             ts \in { Undefined, Null, Str(<<"2025-01-01T00:00:00Z">>) } }
    \cup { FlatReport, NestedReport, Null,
           Obj([ status |-> Str(<<"complete">>) ]) }

HookEndpoints == {"/api/a", "/api/b"}

OkBodies(endpoint) ==
    CASE endpoint = "/api/agents/trigger" ->
            { JsonBody(Obj([success |-> Bool(TRUE), result |-> Str(t)])) : t \in ResultTexts }
            \cup { JsonBody(Obj([success |-> Bool(FALSE)])), BadBody }
      [] endpoint = "/api/analysis/start" ->
            { JsonBody(Obj([status |-> Str(<<"started">>), message |-> Str(<<"ok">>)])),
              BadBody }
      [] endpoint = "/api/analysis/report" ->
            { JsonBody(NestedReport), JsonBody(FlatReport), JsonBody(Null), BadBody }
      [] endpoint = "/health" ->
            { JsonBody(Obj([status |-> Str(<<"healthy">>), service |-> Str(<<"squire">>),
                            version |-> Str(<<"0.1.0">>)])) }
      [] OTHER ->
            { JsonBody(Str(<<"data of ", endpoint>>)), BadBody }

\* what a non-OK response carries: FastAPI's {"detail": ...}, or no JSON at all
ErrorBodies == { JsonBody(Obj([detail |-> Str(<<"Internal Server Error">>)])), BadBody }

StatusTexts == { <<"Internal Server Error">>, <<>> }

ThrownValues == { ErrorObj(<<"Failed to fetch">>), ErrorObj(<<>>), Str(<<"aborted">>) }

FetchOutcomes(endpoint) ==
    { FetchRejected(th) : th \in ThrownValues }
    \cup { FetchResponse(FALSE, st, b) : st \in StatusTexts, b \in ErrorBodies }
    \cup { FetchResponse(TRUE, <<"OK">>, b) : b \in OkBodies(endpoint) }

-----------------------------------------------------------------------------
(* pages/Dashboard.tsx: handleTriggerAgents *)

Idle    == [phase |-> "idle"]
Pending == [phase |-> "pending"]
Settled(fetched, outcome) ==
    [phase |-> "settled", fetched |-> fetched, outcome |-> outcome]

TriggerFallback ==
    IF variant = "analysis" THEN <<"Failed to start analysis workflow">>
    ELSE <<"Failed to trigger agents">>

\* the five cells the trigger handler writes
TriggerCells ==
    [ isLoading |-> isLoading, prResult |-> prResult, meetingResult |-> meetingResult,
      managerResult |-> managerResult, error |-> error ]

\* the request the handler awaits
TriggerRequest ==
    IF variant = "analysis" THEN startAnalysis(Num(3)) ELSE triggerAgents

\* the synchronous head of the handler: five setters, then the call
TriggerStartedKeepsResults(c) == [c EXCEPT !.isLoading = TRUE, !.error = Null]

TriggerStarted(c) ==
    [c EXCEPT !.isLoading = TRUE, !.error = Null, !.prResult = Null,
              !.meetingResult = Null, !.managerResult = Null]

\* catch (err) { setError(...) } finally { setIsLoading(false) }
TriggerCaught(c, thrown) ==
    [c EXCEPT !.error = MessageOf(thrown, TriggerFallback), !.isLoading = FALSE]

\* the try body of the agents variant, after the await resolved with `response`
AgentsParsed(c, response) ==
    IF IsNullish(response)
    THEN TriggerCaught(c, ErrorObj(<<"Cannot read properties of null">>))
    ELSE
    LET got        == Get(response, "result")
        resultText == IF Truthy(got) THEN got ELSE EmptyString
    IN  IF resultText.t # "string"
        THEN TriggerCaught(c, ErrorObj(<<"resultText.toLowerCase is not a function">>))
        ELSE
        LET lowerText == ToLowerCase(resultText.v)
            hw == Includes(lowerText, HelloWorld)
            wh == Includes(lowerText, WorldHello)
        IN  [c EXCEPT
               !.prResult      = IF hw THEN Str(HelloWorld)
                                 ELSE IF ~wh THEN resultText ELSE @,
               !.meetingResult = IF hw THEN Str(HelloWorld) ELSE @,
               !.managerResult = IF wh THEN Str(WorldHello) ELSE @,
               !.isLoading     = FALSE]

\* the try body of the analysis variant: the response is not read
AnalysisStarted(c) ==
    [c EXCEPT
       !.prResult      = Str(<<"Analysis workflow started">>),
       !.meetingResult = Str(<<"PR Agent and Meeting Agent are analyzing in parallel">>),
       !.managerResult = Str(<<"Manager Agent will synthesize results when both complete">>),
       !.isLoading     = FALSE]

TriggerSettledNoFinally(c, outcome) ==
    IF outcome.kind = "rejected"
    THEN [c EXCEPT !.error = MessageOf(outcome.thrown, TriggerFallback)]
    ELSE IF variant = "analysis" THEN AnalysisStarted(c)
    ELSE AgentsParsed(c, outcome.value)

\* the handler's continuation once `await api...` has settled
TriggerSettled(c, outcome) ==
    IF outcome.kind = "rejected" THEN TriggerCaught(c, outcome.thrown)
    ELSE IF variant = "analysis" THEN AnalysisStarted(c)
    ELSE AgentsParsed(c, outcome.value)

SetTriggerCells(c) ==
    /\ isLoading' = c.isLoading
    /\ prResult' = c.prResult
    /\ meetingResult' = c.meetingResult
    /\ managerResult' = c.managerResult
    /\ error' = c.error

Step(action, sent, failed) == [action |-> action, sent |-> sent, failed |-> failed]

InFlight(caller) == { i \in DOMAIN net : net[i].caller = caller }

TriggerNeverDisabled == FALSE

\* <button disabled={isLoading}>
TriggerDisabled == isLoading

\* onClick of the Trigger Agents button; a disabled button dispatches no click
ClickTriggerAgents ==
    /\ ~TriggerDisabled
    /\ SetTriggerCells(TriggerStarted(TriggerCells))
    /\ net' = Append(net, [caller |-> "handleTriggerAgents", req |-> TriggerRequest])
    /\ lastTrigger' = Pending
    /\ lastStep' = Step("ClickTriggerAgents", <<TriggerRequest>>, FALSE)
    /\ UNCHANGED <<variant, isLoadingReport, report, reportError, lastReport, hook, restOfFront>>

SettleTriggerRetrying ==
    \E i \in InFlight("handleTriggerAgents") :
    \E fetched \in FetchOutcomes(net[i].req.endpoint) :
        LET outcome == ApiRequest(fetched) IN
        /\ IF outcome.kind = "rejected"
           THEN /\ net' = Append(RemoveAt(net, i), net[i])
                /\ lastStep' = Step("SettleTrigger", <<net[i].req>>, TRUE)
                /\ lastTrigger' = Pending
                /\ UNCHANGED <<isLoading, prResult, meetingResult, managerResult, error>>
           ELSE /\ SetTriggerCells(TriggerSettled(TriggerCells, outcome))
                /\ net' = RemoveAt(net, i)
                /\ lastStep' = Step("SettleTrigger", <<>>, FALSE)
                /\ lastTrigger' = Settled(fetched, outcome)
        /\ UNCHANGED <<variant, isLoadingReport, report, reportError, lastReport, hook, restOfFront>>

SettleTriggerThenPollsReport ==
    \E i \in InFlight("handleTriggerAgents") :
    \E fetched \in FetchOutcomes(net[i].req.endpoint) :
        LET outcome == ApiRequest(fetched)
            polls   == variant = "analysis" /\ outcome.kind = "resolved"
        IN
        /\ SetTriggerCells(TriggerSettled(TriggerCells, outcome))
        /\ net' = IF polls
                  THEN Append(RemoveAt(net, i),
                              [caller |-> "handleGetReport", req |-> getManagerReport])
                  ELSE RemoveAt(net, i)
        /\ lastTrigger' = Settled(fetched, outcome)
        /\ lastStep' = Step("SettleTrigger",
                            IF polls THEN <<getManagerReport>> ELSE <<>>,
                            outcome.kind = "rejected")
        /\ UNCHANGED <<variant, isLoadingReport, report, reportError, lastReport, hook, restOfFront>>

\* the trigger request settles and the handler resumes after its await
SettleTrigger ==
    \E i \in InFlight("handleTriggerAgents") :
    \E fetched \in FetchOutcomes(net[i].req.endpoint) :
        LET outcome == ApiRequest(fetched) IN
        /\ SetTriggerCells(TriggerSettled(TriggerCells, outcome))
        /\ net' = RemoveAt(net, i)
        /\ lastTrigger' = Settled(fetched, outcome)
        /\ lastStep' = Step("SettleTrigger", <<>>, outcome.kind = "rejected")
        /\ UNCHANGED <<variant, isLoadingReport, report, reportError, lastReport, hook, restOfFront>>

-----------------------------------------------------------------------------
(* Dashboard (analysis variant): handleGetReport *)

ReportCells ==
    [isLoadingReport |-> isLoadingReport, report |-> report, reportError |-> reportError]

ReportStarted(c) ==
    [c EXCEPT !.isLoadingReport = TRUE, !.reportError = Null, !.report = Null]

ReportSettledNoFinally(c, outcome) ==
    IF outcome.kind = "rejected"
    THEN [c EXCEPT !.reportError = MessageOf(outcome.thrown, <<"Failed to fetch report">>)]
    ELSE [c EXCEPT !.report = outcome.value, !.isLoadingReport = FALSE]

ReportSettled(c, outcome) ==
    IF outcome.kind = "rejected"
    THEN [c EXCEPT !.reportError = MessageOf(outcome.thrown, <<"Failed to fetch report">>),
                   !.isLoadingReport = FALSE]
    ELSE [c EXCEPT !.report = outcome.value, !.isLoadingReport = FALSE]

SetReportCells(c) ==
    /\ isLoadingReport' = c.isLoadingReport
    /\ report' = c.report
    /\ reportError' = c.reportError

\* <button disabled={isLoadingReport}>
ReportDisabled == isLoadingReport

ClickGetReportClearsError ==
    /\ variant = "analysis"
    /\ ~ReportDisabled
    /\ SetReportCells(ReportStarted(ReportCells))
    /\ error' = Null
    /\ net' = Append(net, [caller |-> "handleGetReport", req |-> getManagerReport])
    /\ lastReport' = Pending
    /\ lastStep' = Step("ClickGetReport", <<getManagerReport>>, FALSE)
    /\ UNCHANGED <<variant, isLoading, prResult, meetingResult, managerResult,
                   lastTrigger, hook,
                   restOfFront>>

\* onClick of the Get Manager Report button; a disabled button dispatches no click
ClickGetReport ==
    /\ variant = "analysis"
    /\ ~ReportDisabled
    /\ SetReportCells(ReportStarted(ReportCells))
    /\ net' = Append(net, [caller |-> "handleGetReport", req |-> getManagerReport])
    /\ lastReport' = Pending
    /\ lastStep' = Step("ClickGetReport", <<getManagerReport>>, FALSE)
    /\ UNCHANGED <<variant, isLoading, prResult, meetingResult, managerResult, error,
                   lastTrigger, hook,
                   restOfFront>>

ReportRequestSettles(i, fetched) ==
        LET outcome == ApiRequest(fetched) IN
        /\ SetReportCells(ReportSettled(ReportCells, outcome))
        /\ net' = RemoveAt(net, i)
        /\ lastReport' = Settled(fetched, outcome)
        /\ lastStep' = Step("SettleReport", <<>>, outcome.kind = "rejected")
        /\ UNCHANGED <<variant, isLoading, prResult, meetingResult, managerResult, error,
                       lastTrigger, hook,
                   restOfFront>>

SettleReport ==
    \E i \in InFlight("handleGetReport") :
    \E fetched \in FetchOutcomes(net[i].req.endpoint) :
        ReportRequestSettles(i, fetched)

\* the same continuation, over every shape of report body
ReportArrives ==
    \E i \in InFlight("handleGetReport") :
    \E body \in ReportShapes :
        ReportRequestSettles(i, FetchResponse(TRUE, <<"OK">>, JsonBody(body)))

-----------------------------------------------------------------------------
(* Dashboard (analysis variant): what the Manager Report section renders *)

\* the value of an expression whose evaluation threw a TypeError
TypeError == [t |-> "TypeError"]
IsThrown(x) == x.t = "TypeError"

\* x.field: throws on undefined and null
StrictGet(x, field) ==
    IF IsThrown(x) THEN x
    ELSE IF IsNullish(x) THEN TypeError
    ELSE Get(x, field)

\* x?.field
OptGet(x, field) ==
    IF IsThrown(x) THEN x
    ELSE IF IsNullish(x) THEN Undefined
    ELSE Get(x, field)

\* x.length
LengthOf(x) ==
    IF IsThrown(x) THEN x
    ELSE IF IsNullish(x) THEN TypeError
    ELSE IF x.t \in {"array", "string"} THEN Num(Len(x.v))
    ELSE Get(x, "length")

\* a > 0 for the operands the renderer compares
GreaterThanZero(x) == x.t = "number" /\ x.v > 0

InnerNoOptionalChaining(r) == StrictGet(StrictGet(r, "report"), "report")

\* report.report?.report
Inner(r) == OptGet(StrictGet(r, "report"), "report")

\* report.report.report.<field>, as the section bodies read it
Deep(r, field) == StrictGet(StrictGet(StrictGet(r, "report"), "report"), field)

NoView == [threw |-> FALSE, sections |-> {}]
Throws == [threw |-> TRUE, sections |-> {}]

\* a rendered block and the values its body evaluated
Shows(name, evaluated) ==
    IF \E k \in DOMAIN evaluated : IsThrown(evaluated[k]) THEN Throws
    ELSE [threw |-> FALSE, sections |-> {name}]

Both(v, w) == [threw |-> v.threw \/ w.threw, sections |-> v.sections \cup w.sections]

\* {guard && <block/>}
When(guard, block) ==
    IF IsThrown(guard) THEN Throws
    ELSE IF Truthy(guard) THEN block
    ELSE NoView

\* {list && list.length > 0 && <block/>}
WhenNonEmpty(guard, list, block) ==
    IF IsThrown(guard) THEN Throws
    ELSE IF ~Truthy(guard) THEN NoView
    ELSE IF IsThrown(LengthOf(list)) THEN Throws
    ELSE IF GreaterThanZero(LengthOf(list)) THEN block
    ELSE NoView

\* the blocks of a fragment, joined
JoinViews(views) ==
    [ threw    |-> \E k \in DOMAIN views : views[k].threw,
      sections |-> UNION { views[k].sections : k \in DOMAIN views } ]

SliceWhole(items, n) == items

\* list.slice(0, n)
Slice(items, n) == SubSeq(items, 1, IF Len(items) < n THEN Len(items) ELSE n)

MeetingItemsShown == 5

PrSummaryCard(pr) ==
    LET pa == StrictGet(pr, "patch_analysis")
        fd == StrictGet(pa, "features_detected")
    IN  Both(Shows("pr_card",
                   << StrictGet(pr, "url"), StrictGet(pr, "pr_number"),
                      StrictGet(pr, "title"), StrictGet(pr, "complexity"),
                      StrictGet(pr, "risk_level"), StrictGet(pr, "summary"), pa >>),
             When(pa, WhenNonEmpty(fd, fd, Shows("pr_features", <<fd>>))))

MeetingSummaryCard(m) ==
    LET ai == StrictGet(m, "action_items")
    IN  Both(Shows("meeting_card", << StrictGet(m, "doc_url"), StrictGet(m, "summary"), ai >>),
             WhenNonEmpty(ai, ai, Shows("meeting_action_items", <<ai>>)))

\* the items of a list-valued expression the body maps over
ItemsOf(x) == IF x.t = "array" THEN x.v ELSE <<>>

\* {!report.report.report && (<pre>{JSON.stringify(report, null, 2)}</pre>)}
RawReportNoOptionalReport(r) ==
    LET inner == InnerNoOptionalChaining(r)
    IN  IF IsThrown(inner) THEN Throws
        ELSE IF ~Truthy(inner) THEN Shows("raw_json", <<r>>)
        ELSE NoView

\* {!report.report?.report && (<pre>{JSON.stringify(report, null, 2)}</pre>)}
RawReport(r) ==
    LET inner == Inner(r)
    IN  IF IsThrown(inner) THEN Throws
        ELSE IF ~Truthy(inner) THEN Shows("raw_json", <<r>>)
        ELSE NoView

\* the JSX under `report && (...)`
ReportSections(r) ==
    LET inner == Inner(r)
        es  == OptGet(inner, "executive_summary")
        pi  == OptGet(inner, "pr_insights")
        mi  == OptGet(inner, "meeting_insights")
        rec == OptGet(inner, "recommendations")
        ai  == OptGet(inner, "action_items")
        dpr == OptGet(inner, "detailed_pr_summaries")
        dm  == OptGet(inner, "detailed_meeting_summaries")
        ts  == StrictGet(r, "timestamp")
        views ==
          << Shows("status_badge", <<r>>),
             When(ts, Shows("timestamp", <<ts>>)),
             When(es, Shows("executive_summary", <<Deep(r, "executive_summary")>>)),
             When(pi, Shows("pr_insights",
                 [k \in 1..6 |->
                     StrictGet(Deep(r, "pr_insights"),
                         <<"total_prs", "total_files_changed", "high_complexity_count",
                           "high_risk_count", "total_additions", "total_deletions">>[k])])),
             When(mi, Shows("meeting_insights",
                 [k \in 1..4 |->
                     StrictGet(Deep(r, "meeting_insights"),
                         <<"documents_analyzed", "total_action_items", "total_decisions",
                           "total_attendees">>[k])])),
             WhenNonEmpty(rec, Deep(r, "recommendations"),
                 Shows("recommendations", <<Deep(r, "recommendations")>>)),
             WhenNonEmpty(ai, Deep(r, "action_items"),
                 Shows("action_items", <<LengthOf(Deep(r, "action_items"))>>)),
             WhenNonEmpty(dpr, Deep(r, "detailed_pr_summaries"),
                 Both(Shows("detailed_pr_summaries", <<Deep(r, "detailed_pr_summaries")>>),
                      JoinViews([k \in DOMAIN ItemsOf(Deep(r, "detailed_pr_summaries")) |->
                          PrSummaryCard(ItemsOf(Deep(r, "detailed_pr_summaries"))[k])]))),
             WhenNonEmpty(dm, Deep(r, "detailed_meeting_summaries"),
                 Both(Shows("detailed_meeting_summaries",
                            <<Deep(r, "detailed_meeting_summaries")>>),
                      JoinViews([k \in DOMAIN ItemsOf(Deep(r, "detailed_meeting_summaries")) |->
                          MeetingSummaryCard(
                              ItemsOf(Deep(r, "detailed_meeting_summaries"))[k])]))),
             RawReport(r) >>
    IN  JoinViews(views)

\* {report && (...)}
RenderReport(r) == When(r, ReportSections(r))

\* what the Manager Report section shows in the current state
View == RenderReport(report)

\* the action items listed for the k-th detailed meeting summary
MeetingItemsListed(m) ==
    LET ai == Get(m, "action_items")
    IN  IF Truthy(ai) /\ GreaterThanZero(LengthOf(ai))
        THEN Slice(ItemsOf(ai), MeetingItemsShown)
        ELSE <<>>

\* the items the top-level Action Items section lists:
\* report.report.report.action_items.map(...) under its guard
ActionItemsListed(r) ==
    LET ai == OptGet(Inner(r), "action_items")
    IN  IF Truthy(ai) /\ GreaterThanZero(LengthOf(Deep(r, "action_items")))
        THEN ItemsOf(Deep(r, "action_items"))
        ELSE <<>>

\* the badge of the Action Items section: {report.report.report.action_items.length}
ActionItemsBadge(r) == LengthOf(Deep(r, "action_items"))

-----------------------------------------------------------------------------
(* pages/Dashboard.tsx: what the Agent Workflow section displays *)

\* {error && (<div ...>{error}</div>)}
ErrorBoxShown == Truthy(error)

\* {(prResult || meetingResult || managerResult) && (<div> ... </div>)}
ResultsShown == Truthy(prResult) \/ Truthy(meetingResult) \/ Truthy(managerResult)

\* {prResult && (...)} inside the results display
PrPanelShown == ResultsShown /\ Truthy(prResult)

\* {managerResult && (...)} inside the results display
ManagerPanelShown == ResultsShown /\ Truthy(managerResult)

-----------------------------------------------------------------------------
(* hooks/useApi.ts *)

MaxInFlight == 2

HookRequest(endpoint) ==
    [caller |-> "useApi", req |-> ApiRequestInit(endpoint, NoOptions)]

\* fetchData() up to its await: setLoading(true), then api.request(endpoint, options)
HookFetchStarted(h, endpoint) ==
    [h EXCEPT !.mounted = TRUE, !.endpoint = endpoint, !.loading = TRUE]

\* fetchData() after its await
HookFetchSettled(h, outcome) ==
    IF outcome.kind = "rejected"
    THEN [h EXCEPT !.error = IF outcome.thrown.t = "error" THEN outcome.thrown
                             ELSE ErrorObj(<<"Unknown error">>),
                   !.loading = FALSE]
    ELSE [h EXCEPT !.data = outcome.value, !.error = Null, !.loading = FALSE]

\* first render of a component using the hook: the effect runs once
UseApiMount ==
    \E e \in HookEndpoints :
        /\ ~hook.mounted
        /\ hook' = HookFetchStarted(hook, e)
        /\ net' = Append(net, HookRequest(e))
        /\ lastStep' = Step("UseApiMount", <<HookRequest(e).req>>, FALSE)
        /\ UNCHANGED <<dashVars, restOfFront>>

UseApiEndpointChangeCancels ==
    \E e \in HookEndpoints \ {hook.endpoint} :
        /\ hook.mounted
        /\ Cardinality(InFlight("useApi")) < MaxInFlight
        /\ hook' = HookFetchStarted(hook, e)
        /\ net' = Append(SelectSeq(net, LAMBDA r : r.caller # "useApi"), HookRequest(e))
        /\ lastStep' = Step("UseApiEndpointChange", <<HookRequest(e).req>>, FALSE)
        /\ UNCHANGED <<dashVars, restOfFront>>

\* a render with another endpoint: the effect's dependency [endpoint] changed
UseApiEndpointChange ==
    \E e \in HookEndpoints \ {hook.endpoint} :
        /\ hook.mounted
        /\ Cardinality(InFlight("useApi")) < MaxInFlight
        /\ hook' = HookFetchStarted(hook, e)
        /\ net' = Append(net, HookRequest(e))
        /\ lastStep' = Step("UseApiEndpointChange", <<HookRequest(e).req>>, FALSE)
        /\ UNCHANGED <<dashVars, restOfFront>>

SettleUseApi ==
    \E i \in InFlight("useApi") :
    \E fetched \in FetchOutcomes(net[i].req.endpoint) :
        LET outcome == ApiRequest(fetched) IN
        /\ hook' = HookFetchSettled(hook, outcome)
        /\ net' = RemoveAt(net, i)
        /\ lastStep' = Step("SettleUseApi", <<>>, outcome.kind = "rejected")
        /\ UNCHANGED <<dashVars, restOfFront>>

-----------------------------------------------------------------------------
(* The frontend as a whole *)

\* the state of the components after their first render
FrontMounted ==
    /\ isLoading = FALSE
    /\ prResult = Null
    /\ meetingResult = Null
    /\ managerResult = Null
    /\ error = Null
    /\ isLoadingReport = FALSE
    /\ report = Null
    /\ reportError = Null
    /\ net = <<>>
    /\ lastStep = Step("init", <<>>, FALSE)
    /\ lastTrigger = Idle
    /\ lastReport = Idle
    /\ hook = [mounted |-> FALSE, endpoint |-> "", data |-> Null, loading |-> TRUE,
               error |-> Null]

FrontInit ==
    /\ variant \in {"agents", "analysis"}
    /\ FrontMounted

\* the frontend with the analysis Dashboard, for the parts that do not involve it
FrontIdle ==
    /\ variant = "analysis"
    /\ FrontMounted

FrontNext ==
    \/ ClickTriggerAgents
    \/ SettleTrigger
    \/ ClickGetReport
    \/ SettleReport
    \/ UseApiMount
    \/ UseApiEndpointChange
    \/ SettleUseApi

-----------------------------------------------------------------------------
(* One call of an api method, from any of its call sites *)

MaxPrCount == 12

NoCall == [site |-> "", fn |-> "", arg |-> Undefined]

\* the calls the sources make, and calls of the exported startAnalysis by
\* any other caller, with and without its argument
ApiCalls ==
    { [site |-> "Dashboard.handleTriggerAgents", fn |-> "trigger", arg |-> Undefined],
      [site |-> "Dashboard.handleGetReport", fn |-> "getManagerReport", arg |-> Undefined],
      [site |-> "useBackendHealth", fn |-> "healthCheck", arg |-> Undefined] }
    \cup { [site |-> "useApi", fn |-> "request", arg |-> Str(<<e>>)] : e \in HookEndpoints }
    \cup { [site |-> "caller", fn |-> "startAnalysis", arg |-> a] :
             a \in {Undefined} \cup { Num(n) : n \in 0..MaxPrCount } }

\* the request the called method hands to fetch()
ApiCallRequest(call) ==
    CASE call.fn = "trigger"          -> TriggerRequest
      [] call.fn = "getManagerReport" -> getManagerReport
      [] call.fn = "healthCheck"      -> healthCheck
      [] call.fn = "startAnalysis"    -> startAnalysis(call.arg)
      [] OTHER                        -> ApiRequestInit(call.arg.v[1], NoOptions)

ApiInit ==
    /\ apiPc = "idle"
    /\ apiCall = NoCall
    /\ apiSent = <<>>
    /\ apiFetched = FetchRejected(Undefined)
    /\ apiOutcome = Rejected(Undefined)

ApiCalled ==
    \E call \in ApiCalls :
        /\ apiPc = "idle"
        /\ apiCall' = call
        /\ apiSent' = <<ApiCallRequest(call)>>
        /\ apiPc' = "awaiting"
        /\ UNCHANGED <<apiFetched, apiOutcome, restOfApi>>

ApiFetchSettled ==
    /\ apiPc = "awaiting"
    /\ \E fetched \in FetchOutcomes(apiSent[1].endpoint) :
        /\ apiFetched' = fetched
        /\ apiOutcome' = ApiRequest(fetched)
        /\ apiPc' = "settled"
        /\ UNCHANGED <<apiCall, apiSent, restOfApi>>

ApiReturned ==
    /\ apiPc = "settled"
    /\ apiPc' = "idle"
    /\ apiCall' = NoCall
    /\ apiSent' = <<>>
    /\ apiFetched' = FetchRejected(Undefined)
    /\ apiOutcome' = Rejected(Undefined)
    /\ UNCHANGED restOfApi

ApiNext == ApiCalled \/ ApiFetchSettled \/ ApiReturned

-----------------------------------------------------------------------------
(* hooks/useBackendHealth, as Layout.tsx and Dashboard.tsx consume it: a status of
   'checking', 'healthy' or 'unhealthy' with the service and version of the last
   answer, refreshed by a check on mount and every 5 seconds *)

MaxHealthInFlight == 3
MaxOutages == 3
MaxCounted == 3

\* what fetch('/health') settles with: the 200 answer while the backend is up,
\* otherwise a refused connection or an error response
HealthOutcomes ==
    IF backendUp
    THEN { FetchResponse(TRUE, <<"OK">>, b) : b \in OkBodies("/health") }
    ELSE { FetchRejected(ErrorObj(<<"Failed to fetch">>)),
           FetchResponse(FALSE, <<"Bad Gateway">>, BadBody) }

HealthMounted ==
    /\ health = [status |-> "checking", service |-> Undefined, version |-> Undefined]
    /\ healthNet = <<>>
    /\ outages = 0
    /\ okSinceUp = 0

HealthInit == HealthMounted /\ backendUp \in BOOLEAN

HealthIdle == HealthMounted /\ backendUp = TRUE

\* checkHealth() up to its await: on mount, and on every tick of the 5 s interval
HealthPoll ==
    /\ Len(healthNet) < MaxHealthInFlight
    /\ healthNet' = Append(healthNet, healthCheck)
    /\ UNCHANGED <<health, backendUp, outages, okSinceUp, restOfHealth>>

\* checkHealth() after its await
HealthChecked(outcome) ==
    IF outcome.kind = "resolved"
    THEN [status |-> "healthy", service |-> Get(outcome.value, "service"),
          version |-> Get(outcome.value, "version")]
    ELSE [status |-> "unhealthy", service |-> Undefined, version |-> Undefined]

HealthSettled ==
    \E i \in DOMAIN healthNet :
    \E fetched \in HealthOutcomes :
        /\ health' = HealthChecked(ApiRequest(fetched))
        /\ healthNet' = RemoveAt(healthNet, i)
        /\ okSinceUp' = IF backendUp /\ okSinceUp < MaxCounted THEN okSinceUp + 1
                        ELSE okSinceUp
        /\ UNCHANGED <<backendUp, outages, restOfHealth>>

\* the backend stops answering
BackendGoesDown ==
    /\ backendUp
    /\ outages < MaxOutages
    /\ backendUp' = FALSE
    /\ outages' = outages + 1
    /\ okSinceUp' = 0
    /\ UNCHANGED <<health, healthNet, restOfHealth>>

\* the backend answers again
BackendComesUp ==
    /\ ~backendUp
    /\ backendUp' = TRUE
    /\ okSinceUp' = 0
    /\ UNCHANGED <<health, healthNet, outages, restOfHealth>>

HealthNext == HealthPoll \/ HealthSettled \/ BackendGoesDown \/ BackendComesUp

-----------------------------------------------------------------------------
(* app/router.tsx and app/App.tsx: the route table and <Routes> *)

MaxSegments == 2

Route(path, segments, splat, component) ==
    [path |-> path, segments |-> segments, splat |-> splat, component |-> component]

routerWithoutNotFound ==
    << Route("/", <<>>, FALSE, "Dashboard"),
       Route("/interns", <<"interns">>, FALSE, "Interns"),
       Route("/team-members", <<"team-members">>, FALSE, "TeamMembers"),
       Route("/managers", <<"managers">>, FALSE, "Managers") >>

\* the route table; each path with its segments between the slashes
router ==
    << Route("/", <<>>, FALSE, "Dashboard"),
       Route("/interns", <<"interns">>, FALSE, "Interns"),
       Route("/team-members", <<"team-members">>, FALSE, "TeamMembers"),
       Route("/managers", <<"managers">>, FALSE, "Managers"),
       Route("*", <<>>, TRUE, "NotFound") >>

\* the segments a pathname may be made of
PathSegments ==
    {"interns", "Interns", "INTERNS", "team-members", "Team-Members", "managers",
     "Managers", "settings"}

LowerSegment(seg) ==
    CASE seg \in {"Interns", "INTERNS"} -> "interns"
      [] seg = "Team-Members"           -> "team-members"
      [] seg = "Managers"               -> "managers"
      [] OTHER                          -> seg

RECURSIVE SeqsUpTo(_, _)
SeqsUpTo(S, n) ==
    IF n = 0 THEN {<<>>}
    ELSE LET shorter == SeqsUpTo(S, n - 1)
         IN  shorter \cup { Append(q, x) : q \in shorter, x \in S }

Pathnames ==
    { [segments |-> q, trailingSlash |-> ts] :
        q \in SeqsUpTo(PathSegments, MaxSegments), ts \in BOOLEAN }
    \ { [segments |-> <<>>, trailingSlash |-> TRUE] }

\* the `to` of the <Link>s in Layout.tsx
NavLinks ==
    { [segments |-> q, trailingSlash |-> FALSE] :
        q \in {<<>>, <<"interns">>, <<"team-members">>, <<"managers">>} }

\* <Route path>: a splat matches every pathname; a static path matches segment by
\* segment, letter case and a trailing slash disregarded (caseSensitive is not set)
RouteMatches(route, loc) ==
    \/ route.splat
    \/ /\ Len(route.segments) = Len(loc.segments)
       /\ \A i \in DOMAIN route.segments :
             LowerSegment(route.segments[i]) = LowerSegment(loc.segments[i])

\* the rank <Routes> gives a route: static segments count, a splat is penalised
RouteScore(route) ==
    IF route.splat THEN 1 ELSE 4 + 10 * Len(route.segments)

\* <Routes>: the element of the best-ranked matching route, the earlier one on a tie
RoutesRender(loc) ==
    LET matching == { i \in DOMAIN router : RouteMatches(router[i], loc) }
        best == { i \in matching :
                    \A j \in matching :
                       \/ RouteScore(router[i]) > RouteScore(router[j])
                       \/ (RouteScore(router[i]) = RouteScore(router[j]) /\ i <= j) }
    IN  IF matching = {} THEN <<>>
        ELSE <<router[CHOOSE i \in best : TRUE].component>>

\* the app as loaded at '/'
RouterInit ==
    /\ location = [segments |-> <<>>, trailingSlash |-> FALSE]
    /\ rendered = RoutesRender(location)

\* a URL is entered in the address bar: the app is loaded at that pathname
OpenUrl ==
    \E to \in Pathnames \ {location} :
        /\ location' = to
        /\ rendered' = RoutesRender(to)
        /\ UNCHANGED restOfRoutes

\* a click on one of the navigation links
Navigate ==
    \E to \in NavLinks \ {location} :
        /\ location' = to
        /\ rendered' = RoutesRender(to)
        /\ UNCHANGED restOfRoutes

-----------------------------------------------------------------------------
(* scripts/start-backend.sh, the variant whose header promises a virtual
   environment.  The script has no `set -e`: a failing command is followed by the
   next line. *)

\* what backend/venv or backend/env may be:
\*   "absent"  no directory, or no bin/activate in it
\*   "nopkgs"  activates, its python lacks fastapi or uvicorn
\*   "valid"   activates, its python imports fastapi and uvicorn
\*   "stale"   bin/activate exists, but sourcing it puts no runnable python first
\*             on PATH (the environment was moved, or its interpreter is gone)
DirStates == {"absent", "nopkgs", "valid", "stale"}

Hosts ==
    [ python312 : BOOLEAN, python3 : BOOLEAN, python : BOOLEAN,
      venvCreates : BOOLEAN, pipInstalls : BOOLEAN ]

FileSystems == [ venv : DirStates, env : DirStates, systemPackages : BOOLEAN ]

ShellStart ==
    [ pc |-> "select", PYTHON_CMD |-> "", VENV_PYTHON |-> "",
      activated |-> "none", hashed |-> "none", launched |-> "none" ]

find_best_python(h) ==
    IF h.python312 THEN "python3.12"
    ELSE IF h.python3 THEN "python3"
    ELSE IF h.python THEN "python"
    ELSE ""

HasPython(f, dir) == dir \in {"venv", "env"} /\ f[dir] \in {"nopkgs", "valid"}

\* where the command `python` runs from: the location bash remembers for it, else
\* the first on PATH -- the activated environment, then the system.  "gone": the
\* remembered file no longer exists; "none": command not found.
WhichPython(h, f, s) ==
    IF s.hashed # "none"
    THEN IF s.hashed = "system" \/ HasPython(f, s.hashed) THEN s.hashed ELSE "gone"
    ELSE IF HasPython(f, s.activated) THEN s.activated
    ELSE IF h.python THEN "system"
    ELSE "none"

Remembered(s, where) ==
    IF where \in {"venv", "env", "system"} THEN where ELSE s.hashed

\* python -c "import fastapi, uvicorn"
ImportsPackages(f, where) ==
    CASE where = "system"         -> f.systemPackages
      [] where \in {"venv", "env"} -> f[where] = "valid"
      [] OTHER                     -> FALSE

\* source <dir>/bin/activate: prepends <dir>/bin to PATH and forgets remembered
\* locations; fails, changing nothing, when the file is missing
Source(f, s, dir) ==
    IF f[dir] = "absent" THEN s
    ELSE [s EXCEPT !.activated = dir, !.hashed = "none"]

\* lines 68-77 and 79-88
UseExisting(h, f, s, dir) ==
    LET sourced == Source(f, s, dir)
        where   == WhichPython(h, f, sourced)
        ran     == [sourced EXCEPT !.hashed = Remembered(sourced, where)]
    IN  IF ImportsPackages(f, where)
        THEN [ fs |-> f, sh |-> [ran EXCEPT !.PYTHON_CMD = "python", !.pc = "verify"] ]
        ELSE [ fs |-> [f EXCEPT ![dir] = "absent"],
               sh |-> [ran EXCEPT !.PYTHON_CMD = "", !.pc = "create"] ]

\* lines 67-91, and the test of line 94
SelectVenv ==
    /\ sh.pc = "select"
    /\ LET next == IF fs.venv # "absent" THEN UseExisting(host, fs, sh, "venv")
                   ELSE IF fs.env # "absent" THEN UseExisting(host, fs, sh, "env")
                   ELSE [ fs |-> fs, sh |-> [sh EXCEPT !.PYTHON_CMD = "", !.pc = "create"] ]
       IN  /\ fs' = next.fs
           /\ sh' = next.sh
    /\ UNCHANGED <<host, restOfScript>>

\* lines 98-103
FindPython ==
    /\ sh.pc = "create"
    /\ sh' = [sh EXCEPT !.VENV_PYTHON = find_best_python(host),
                        !.pc = IF find_best_python(host) = "" THEN "exited" ELSE "mkvenv"]
    /\ UNCHANGED <<host, fs, restOfScript>>

\* lines 106-112
CreateVenv ==
    /\ sh.pc = "mkvenv"
    /\ fs' = IF host.venvCreates THEN [fs EXCEPT !.venv = "nopkgs"] ELSE fs
    /\ sh' = [sh EXCEPT !.pc = "activate"]
    /\ UNCHANGED <<host, restOfScript>>

\* lines 114-115
ActivateNew ==
    /\ sh.pc = "activate"
    /\ sh' = [Source(fs, sh, "venv") EXCEPT !.PYTHON_CMD = "python", !.pc = "install"]
    /\ UNCHANGED <<host, fs, restOfScript>>

\* the environment the command `pip` installs into
PipTarget(h, f, s) ==
    IF HasPython(f, s.activated) THEN s.activated
    ELSE IF h.python THEN "system"
    ELSE "none"

\* lines 117-119
InstallDeps ==
    /\ sh.pc = "install"
    /\ LET target == PipTarget(host, fs, sh) IN
       fs' = IF ~host.pipInstalls THEN fs
             ELSE CASE target = "system"         -> [fs EXCEPT !.systemPackages = TRUE]
                    [] target \in {"venv", "env"} -> [fs EXCEPT ![target] = "valid"]
                    [] OTHER                      -> fs
    /\ sh' = [sh EXCEPT !.pc = "verify"]
    /\ UNCHANGED <<host, restOfScript>>

\* lines 123-127
VerifyPackages ==
    /\ sh.pc = "verify"
    /\ LET where == WhichPython(host, fs, sh) IN
       sh' = [sh EXCEPT !.hashed = Remembered(sh, where),
                        !.pc = IF ImportsPackages(fs, where) THEN "launch" ELSE "exited"]
    /\ UNCHANGED <<host, fs, restOfScript>>

\* line 132
LaunchUvicorn ==
    /\ sh.pc = "launch"
    /\ LET where == WhichPython(host, fs, sh) IN
       sh' = IF where \in {"venv", "env", "system"}
             THEN [sh EXCEPT !.launched = where, !.pc = "running"]
             ELSE [sh EXCEPT !.pc = "exited"]
    /\ UNCHANGED <<host, fs, restOfScript>>

\* the script is run on any machine, in any state of the backend directory
ScriptInit ==
    /\ host \in Hosts
    /\ fs \in FileSystems
    /\ sh = ShellStart

\* the script is not run
ScriptIdle ==
    /\ host = [ python312 |-> TRUE, python3 |-> TRUE, python |-> TRUE,
                venvCreates |-> TRUE, pipInstalls |-> TRUE ]
    /\ fs = [ venv |-> "valid", env |-> "absent", systemPackages |-> FALSE ]
    /\ sh = [ShellStart EXCEPT !.pc = "not run"]

ScriptNext ==
    \/ SelectVenv
    \/ FindPython
    \/ CreateVenv
    \/ ActivateNew
    \/ InstallDeps
    \/ VerifyPackages
    \/ LaunchUvicorn

-----------------------------------------------------------------------------
(* scripts/start-sam.sh.  The script runs under `set -e`: a failing command ends
   it with that command's status. *)

\* what sam/.venv may be:
\*   "absent"  no directory, or no bin/activate in it
\*   "empty"   activates, solace-agent-mesh is not installed in it
\*   "sam"     activates, its bin holds the sam command
SamVenvStates == {"absent", "empty", "sam"}

SamMachines ==
    [ samDir : BOOLEAN, venv : SamVenvStates, systemSam : BOOLEAN,
      host : [ python312 : BOOLEAN, python3 : {FALSE}, python : BOOLEAN ],
      venvCreates : BOOLEAN, pipInstalls : BOOLEAN,
      envFile : BOOLEAN, webui : BOOLEAN, orchestrator : BOOLEAN ]

SamShellStart ==
    [ pc |-> "start", activated |-> FALSE, warned |-> FALSE, status |-> 0,
      started |-> "none" ]

\* the fields of the shell, added to those of the machine
SamRun(machine, shell) ==
    [ k \in DOMAIN machine \cup DOMAIN shell |->
        IF k \in DOMAIN shell THEN shell[k] ELSE machine[k] ]

\* where `sam` is found on PATH: the activated venv first, then the system
WhichSam(m) ==
    IF m.activated /\ m.venv = "sam" THEN "venv"
    ELSE IF m.systemSam THEN "system"
    ELSE "none"

SamExits(m, status) == [m EXCEPT !.pc = "exited", !.status = status]

\* lines 28-33
SamCheckDir ==
    /\ sam.pc = "start"
    /\ sam' = IF ~sam.samDir THEN SamExits(sam, 1) ELSE [sam EXCEPT !.pc = "venv"]
    /\ UNCHANGED restOfSam

\* lines 66-75; a failing pip install ends the script with pip's status 1
SamUseVenv ==
    /\ sam.pc = "venv"
    /\ sam.venv # "absent"
    /\ LET sourced == [sam EXCEPT !.activated = TRUE] IN
       sam' = IF WhichSam(sourced) # "none" THEN [sourced EXCEPT !.pc = "verify"]
              ELSE IF sam.pipInstalls
                   THEN [sourced EXCEPT !.venv = "sam", !.pc = "verify"]
                   ELSE SamExits(sourced, 1)
    /\ UNCHANGED restOfSam

\* lines 78-84: with no interpreter the assignment of line 80 fails and ends the
\* script with status 1
SamFindPython ==
    /\ sam.pc = "venv"
    /\ sam.venv = "absent"
    /\ sam' = IF find_best_python(sam.host) = "" THEN SamExits(sam, 1)
              ELSE [sam EXCEPT !.pc = "mkvenv"]
    /\ UNCHANGED restOfSam

\* lines 86-94
SamCreateVenv ==
    /\ sam.pc = "mkvenv"
    /\ sam' = IF sam.venvCreates
              THEN [sam EXCEPT !.venv = "empty", !.activated = TRUE, !.pc = "install"]
              ELSE SamExits(sam, 1)
    /\ UNCHANGED restOfSam

\* lines 95-97
SamInstall ==
    /\ sam.pc = "install"
    /\ sam' = IF sam.pipInstalls THEN [sam EXCEPT !.venv = "sam", !.pc = "verify"]
              ELSE SamExits(sam, 1)
    /\ UNCHANGED restOfSam

\* lines 101-105
SamVerify ==
    /\ sam.pc = "verify"
    /\ sam' = IF WhichSam(sam) = "none" THEN SamExits(sam, 1)
              ELSE [sam EXCEPT !.pc = "configs"]
    /\ UNCHANGED restOfSam

\* lines 108-123
SamCheckConfigs ==
    /\ sam.pc = "configs"
    /\ LET warned == [sam EXCEPT !.warned = ~sam.envFile] IN
       sam' = IF ~sam.webui THEN SamExits(warned, 1)
              ELSE IF ~sam.orchestrator THEN SamExits(warned, 1)
              ELSE [warned EXCEPT !.pc = "exec"]
    /\ UNCHANGED restOfSam

\* lines 126-160
SamExec ==
    /\ sam.pc = "exec"
    /\ sam' = [sam EXCEPT !.started = WhichSam(sam), !.pc = "running"]
    /\ UNCHANGED restOfSam

\* the script is run on any machine
SamInit == sam \in { SamRun(m, SamShellStart) : m \in SamMachines }

\* the script is not run
SamIdle ==
    sam = SamRun([ samDir |-> TRUE, venv |-> "sam", systemSam |-> FALSE,
                   host |-> [python312 |-> TRUE, python3 |-> FALSE, python |-> TRUE],
                   venvCreates |-> TRUE, pipInstalls |-> TRUE,
                   envFile |-> TRUE, webui |-> TRUE, orchestrator |-> TRUE ],
                 [SamShellStart EXCEPT !.pc = "not run"])

SamNext ==
    \/ SamCheckDir
    \/ SamUseVenv
    \/ SamFindPython
    \/ SamCreateVenv
    \/ SamInstall
    \/ SamVerify
    \/ SamCheckConfigs
    \/ SamExec

-----------------------------------------------------------------------------
(* dev.sh: database, .env and dependency setup, then the servers.  The script runs
   under `set -e`. *)

MaxRuns == 3
MaxRows == 2

NoFile == [kind |-> "absent", content |-> <<>>]
EmptyFile == [kind |-> "file", content |-> <<>>]
Directory == [kind |-> "dir", content |-> <<>>]

\* backend/data and backend/data/squire.db before the first run: nothing, a
\* directory with or without a database (empty or with rows), a database path
\* that is a directory, or backend/data being a file
DevMachines ==
    { m \in [ dataDir : {"absent", "dir", "file"},
              db : {NoFile, EmptyFile, Directory, [kind |-> "file", content |-> <<"row">>]},
              envFile : {"absent", "present"}, example : BOOLEAN,
              canWrite : BOOLEAN, depsInstall : BOOLEAN ] :
        m.dataDir # "dir" => m.db = NoFile }

DevStart(m) ==
    [ pc |-> "start", runs |-> 1, dataDir |-> m.dataDir, db |-> m.db,
      envFile |-> m.envFile, example |-> m.example, canWrite |-> m.canWrite,
      depsInstall |-> m.depsInstall ]

\* lines 20-23: mkdir -p fails when backend/data is a file or cannot be created
DevEnsureDir ==
    /\ dev.pc = "start"
    /\ dev' = IF dev.dataDir = "dir" THEN [dev EXCEPT !.pc = "db"]
              ELSE IF dev.dataDir = "absent" /\ dev.canWrite
                   THEN [dev EXCEPT !.dataDir = "dir", !.pc = "db"]
                   ELSE [dev EXCEPT !.pc = "exited"]
    /\ UNCHANGED restOfDev

DevEnsureDbTruncating ==
    /\ dev.pc = "db"
    /\ dev' = IF dev.db.kind = "dir" THEN [dev EXCEPT !.pc = "exited"]
              ELSE IF dev.canWrite THEN [dev EXCEPT !.db = EmptyFile, !.pc = "env"]
              ELSE [dev EXCEPT !.pc = "exited"]
    /\ UNCHANGED restOfDev

\* lines 25-28: touch creates the file when there is none, and only updates the
\* timestamp of a directory of that name
DevEnsureDb ==
    /\ dev.pc = "db"
    /\ dev' = IF dev.db.kind = "file" THEN [dev EXCEPT !.pc = "env"]
              ELSE IF ~dev.canWrite THEN [dev EXCEPT !.pc = "exited"]
              ELSE IF dev.db.kind = "absent" THEN [dev EXCEPT !.db = EmptyFile, !.pc = "env"]
              ELSE [dev EXCEPT !.pc = "env"]
    /\ UNCHANGED restOfDev

\* lines 31-42
DevEnsureEnv ==
    /\ dev.pc = "env"
    /\ dev' = IF dev.envFile # "absent" THEN [dev EXCEPT !.pc = "deps"]
              ELSE IF ~dev.canWrite THEN [dev EXCEPT !.pc = "exited"]
              ELSE [dev EXCEPT !.envFile = IF dev.example THEN "copied" ELSE "generated",
                               !.pc = "deps"]
    /\ UNCHANGED restOfDev

\* lines 45-77: dependency checks, then npm run dev
DevStartServers ==
    /\ dev.pc = "deps"
    /\ dev' = [dev EXCEPT !.pc = IF dev.depsInstall THEN "serving" ELSE "exited"]
    /\ UNCHANGED restOfDev

\* the backend, started by npm run dev, writes to its database
DevBackendWrites ==
    /\ dev.pc = "serving"
    /\ dev.db.kind = "file"
    /\ Len(dev.db.content) < MaxRows
    /\ dev' = [dev EXCEPT !.db.content = Append(dev.db.content, "row")]
    /\ UNCHANGED restOfDev

\* the servers are stopped, or the script has failed, and dev.sh is run again
DevRunAgain ==
    /\ dev.pc \in {"serving", "exited"}
    /\ dev.runs < MaxRuns
    /\ dev' = [dev EXCEPT !.pc = "start", !.runs = dev.runs + 1]
    /\ UNCHANGED restOfDev

DevInit == dev \in { DevStart(m) : m \in DevMachines }

DevIdle ==
    dev = [ DevStart([ dataDir |-> "dir", db |-> EmptyFile, envFile |-> "present",
                       example |-> TRUE, canWrite |-> TRUE, depsInstall |-> TRUE ])
            EXCEPT !.pc = "not run" ]

DevNext ==
    \/ DevEnsureDir
    \/ DevEnsureDb
    \/ DevEnsureEnv
    \/ DevStartServers
    \/ DevBackendWrites
    \/ DevRunAgain

-----------------------------------------------------------------------------
(* The local agents launcher (the third script of scripts/start-backend.sh).  No
   `set -e`. *)

\* the modules started with `&`, in the order of the script
AgentModules == <<"pr_agent", "meeting_agent", "join_agent", "manager_agent">>

\* a started agent is "running", then "exited" (status 0) or "failed"
Ended == {"exited", "failed"}

AgentsStart(venv, backend) ==
    [ pc |-> "check", venv |-> venv, backend |-> backend, next |-> 1, status |-> 0,
      procs |-> [k \in DOMAIN AgentModules |-> "none"] ]

\* lines 277-284
AgentsCheckVenv ==
    /\ agents.pc = "check"
    /\ agents' = IF agents.venv THEN [agents EXCEPT !.pc = "launch"]
                 ELSE [agents EXCEPT !.pc = "exited", !.status = 1]
    /\ UNCHANGED restOfAgents

StartNextAgentAfterPrevious ==
    /\ agents.pc = "launch"
    /\ agents.next > 1 => agents.procs[agents.next - 1] \in Ended
    /\ agents' = [agents EXCEPT !.procs[agents.next] = "running",
                                !.next = agents.next + 1,
                                !.pc = IF agents.next = Len(AgentModules)
                                       THEN "wait" ELSE "launch"]
    /\ UNCHANGED restOfAgents

\* lines 289-300: $PYTHON_CMD -m app.agents.<module> &, after a `cd backend` whose
\* failure is not tested
StartNextAgent ==
    /\ agents.pc = "launch"
    /\ agents' = [agents EXCEPT !.procs[agents.next] = "running",
                                !.next = agents.next + 1,
                                !.pc = IF agents.next = Len(AgentModules)
                                       THEN "wait" ELSE "launch"]
    /\ UNCHANGED restOfAgents

\* a started agent process ends, at any time; outside backend/ the module is not
\* found and the process fails
AgentExits ==
    \E k \in DOMAIN AgentModules :
    \E how \in IF agents.backend THEN Ended ELSE {"failed"} :
        /\ agents.procs[k] = "running"
        /\ agents' = [agents EXCEPT !.procs[k] = how]
        /\ UNCHANGED restOfAgents

\* line 312: wait returns when no background child is left
AgentsWaited ==
    /\ agents.pc = "wait"
    /\ \A k \in DOMAIN AgentModules : agents.procs[k] # "running"
    /\ agents' = [agents EXCEPT !.pc = "exited", !.status = 0]
    /\ UNCHANGED restOfAgents

AgentsInit == agents \in { AgentsStart(venv, backend) : venv, backend \in BOOLEAN }

AgentsIdle == agents = [AgentsStart(TRUE, TRUE) EXCEPT !.pc = "not run"]

AgentsNext ==
    \/ AgentsCheckVenv
    \/ StartNextAgent
    \/ AgentExits
    \/ AgentsWaited

OtherScriptsIdle == SamIdle /\ DevIdle /\ AgentsIdle

-----------------------------------------------------------------------------
(* Specifications *)

vars == <<frontVars, apiVars, healthVars, routeVars, scriptVars, otherScripts>>

Init == FrontInit /\ ApiInit /\ HealthIdle /\ RouterInit /\ ScriptIdle /\ OtherScriptsIdle

\* the frontend: both Dashboard workflows and one useApi instance
Next == FrontNext

Spec == Init /\ [][Next]_vars

\* the Dashboard alone; every request sent is eventually settled by fetch()
DashNext ==
    \/ ClickTriggerAgents
    \/ SettleTrigger
    \/ ClickGetReport
    \/ SettleReport

DashLive ==
    /\ Init
    /\ [][DashNext]_vars
    /\ WF_vars(SettleTrigger)
    /\ WF_vars(SettleReport)

\* single calls of the api methods
ApiSpec == Init /\ [][ApiNext]_vars

\* the health poller: the interval timer keeps firing and every check sent is
\* eventually settled by fetch()
HealthLiveInit == FrontIdle /\ ApiInit /\ HealthInit /\ RouterInit /\ ScriptIdle /\ OtherScriptsIdle

HealthLive ==
    /\ HealthLiveInit
    /\ [][HealthNext]_vars
    /\ WF_vars(HealthPoll)
    /\ WF_vars(HealthSettled)

\* the router: pathnames entered in the address bar and reached by the links
RouterSpecInit == FrontIdle /\ ApiInit /\ HealthIdle /\ RouterInit /\ ScriptIdle /\ OtherScriptsIdle

RouterNext == OpenUrl \/ Navigate

RouterSpec == RouterSpecInit /\ [][RouterNext]_vars

\* the Manager Report section: reports are fetched by clicking, and arrive in
\* every shape
RenderSpecInit == FrontIdle /\ ApiInit /\ HealthIdle /\ RouterInit /\ ScriptIdle /\ OtherScriptsIdle

RenderNext == ClickGetReport \/ ReportArrives

RenderSpec == RenderSpecInit /\ [][RenderNext]_vars

\* one run of start-backend.sh
ScriptSpecInit == FrontIdle /\ ApiInit /\ HealthIdle /\ RouterInit /\ ScriptInit /\ OtherScriptsIdle

ScriptSpec == ScriptSpecInit /\ [][ScriptNext]_vars

\* one run of start-sam.sh
SamSpecInit ==
    /\ FrontIdle /\ ApiInit /\ HealthIdle /\ RouterInit /\ ScriptIdle
    /\ SamInit /\ DevIdle /\ AgentsIdle

SamSpec == SamSpecInit /\ [][SamNext]_vars

\* dev.sh, run any number of times
DevSpecInit ==
    /\ FrontIdle /\ ApiInit /\ HealthIdle /\ RouterInit /\ ScriptIdle
    /\ SamIdle /\ DevInit /\ AgentsIdle

DevSpec == DevSpecInit /\ [][DevNext]_vars

\* one run of the agents launcher
AgentsSpecInit ==
    /\ FrontIdle /\ ApiInit /\ HealthIdle /\ RouterInit /\ ScriptIdle
    /\ SamIdle /\ DevIdle /\ AgentsInit

AgentsSpec == AgentsSpecInit /\ [][AgentsNext]_vars

-----------------------------------------------------------------------------
(* Properties *)

TriggerFailed ==
    /\ lastTrigger.phase = "settled"
    /\ \/ lastTrigger.fetched.kind = "rejected"
       \/ ~lastTrigger.fetched.ok

\* C1: once the request of handleTriggerAgents has failed (fetch rejected, or the
\* response was not OK), error holds the message of the caught Error (for a non-OK
\* response 'API error: <statusText>'), or the variant's fallback text when the
\* thrown value is not an Error; the three results are null and isLoading is false.
\* This stays so until the next click.
C1_TriggerFailureState ==
    TriggerFailed =>
        LET f == lastTrigger.fetched IN
        /\ error = IF f.kind = "response" THEN Str(<<"API error: ">> \o f.statusText)
                   ELSE IF f.thrown.t = "error" THEN Str(f.thrown.v)
                   ELSE IF variant = "analysis"
                        THEN Str(<<"Failed to start analysis workflow">>)
                        ELSE Str(<<"Failed to trigger agents">>)
        /\ prResult = Null
        /\ meetingResult = Null
        /\ managerResult = Null
        /\ isLoading = FALSE

\* a trigger request was rejected with a value that is not an Error: the fallback case
C1_Witness ==
    /\ TriggerFailed
    /\ lastTrigger.fetched.kind = "rejected"
    /\ lastTrigger.fetched.thrown.t # "error"
    /\ variant = "analysis"

\* C3 as stated: a non-OK response rejects with 'API error: <statusText>', every OK
\* response resolves with the parsed JSON body, a rejected fetch propagates.
C3_TwoOutcomesAsStated ==
    apiPc = "settled" =>
        IF apiFetched.kind = "rejected" THEN apiOutcome = Rejected(apiFetched.thrown)
        ELSE IF ~apiFetched.ok
             THEN apiOutcome = Rejected(ErrorObj(<<"API error: ">> \o apiFetched.statusText))
             ELSE apiOutcome = Resolved(apiFetched.body.json)

\* C3 (amended): a non-OK response rejects with 'API error: <statusText>' and never
\* yields a value; an OK response whose body is valid JSON resolves with the parsed
\* body; an OK response whose body is not valid JSON rejects with the parser's
\* error; a rejected fetch propagates.  A value is received only for an OK response.
C3_RequestOutcomes ==
    apiPc = "settled" =>
        /\ apiFetched.kind = "rejected" => apiOutcome = Rejected(apiFetched.thrown)
        /\ (apiFetched.kind = "response" /\ ~apiFetched.ok) =>
               apiOutcome = Rejected(ErrorObj(<<"API error: ">> \o apiFetched.statusText))
        /\ (apiFetched.kind = "response" /\ apiFetched.ok /\ apiFetched.body.syntaxOk) =>
               apiOutcome = Resolved(apiFetched.body.json)
        /\ (apiFetched.kind = "response" /\ apiFetched.ok /\ ~apiFetched.body.syntaxOk) =>
               /\ apiOutcome.kind = "rejected"
               /\ apiOutcome.thrown.t = "error"
               /\ ~Includes(apiOutcome.thrown.v, <<"API error: ">>)
        /\ apiOutcome.kind = "resolved" =>
               (apiFetched.kind = "response" /\ apiFetched.ok)

\* an OK response whose body does not parse has settled the call
C3_Witness ==
    /\ apiPc = "settled"
    /\ apiFetched.kind = "response"
    /\ apiFetched.ok
    /\ ~apiFetched.body.syntaxOk
    /\ apiOutcome.kind = "rejected"

\* the decimal digits of the small numbers the model sends
C4_Decimal(n) ==
    IF n < 10 THEN <<Digit(n)>> ELSE <<Digit(n \div 10), Digit(n % 10)>>

\* C4: startAnalysis(prCount) hands fetch exactly one request, a POST to
\* /api/analysis/start whose body is the JSON text {"pr_count":<prCount>}, with 3
\* for an omitted argument; the trigger handler of the analysis Dashboard sends
\* that request with pr_count 3.
C4_StartAnalysisRequest ==
    /\ (apiPc # "idle" /\ apiCall.fn = "startAnalysis") =>
          /\ Len(apiSent) = 1
          /\ apiSent[1].method = "POST"
          /\ apiSent[1].endpoint = "/api/analysis/start"
          /\ apiSent[1].body =
                <<"{", "\"", "pr_count", "\"", ":">>
                \o C4_Decimal(IF apiCall.arg.t = "undefined" THEN 3 ELSE apiCall.arg.v)
                \o <<"}">>
    /\ (apiPc # "idle" /\ apiCall.site = "Dashboard.handleTriggerAgents"
          /\ variant = "analysis") =>
          /\ Len(apiSent) = 1
          /\ apiSent[1].method = "POST"
          /\ apiSent[1].endpoint = "/api/analysis/start"
          /\ apiSent[1].body = <<"{", "\"", "pr_count", "\"", ":", "3", "}">>

\* startAnalysis() was called without its argument and its request is in flight
C4_Witness ==
    /\ apiPc = "awaiting"
    /\ apiCall.fn = "startAnalysis"
    /\ apiCall.arg.t = "undefined"
    /\ Len(apiSent) = 1

AnalysisStartedOk ==
    /\ variant = "analysis"
    /\ lastTrigger.phase = "settled"
    /\ lastTrigger.outcome.kind = "resolved"

ReportRequestSent ==
    \E k \in DOMAIN lastStep.sent : lastStep.sent[k].endpoint = "/api/analysis/report"

\* C5 as stated: once an analysis has been started, GET /api/analysis/report is
\* issued by the program itself, without a click, until a report has been returned.
C5_ReportIsPolled ==
    AnalysisStartedOk ~>
        \/ (ReportRequestSent /\ lastStep.action # "ClickGetReport")
        \/ (lastReport.phase = "settled" /\ lastReport.outcome.kind = "resolved")

\* C5 (amended): GET /api/analysis/report is issued only by a click on Get Manager
\* Report, once per click; starting an analysis issues no report request, and no
\* report request is in flight unless a click is being served.
C5_ReportFetchedOnClickOnly ==
    /\ ReportRequestSent =>
          /\ lastStep.action = "ClickGetReport"
          /\ lastStep.sent = <<getManagerReport>>
    /\ Cardinality(InFlight("handleGetReport")) = IF lastReport.phase = "pending" THEN 1 ELSE 0
    /\ \A i \in DOMAIN net :
          net[i].req.endpoint = "/api/analysis/report" => net[i].caller = "handleGetReport"

\* an analysis was started, the report button was never clicked, and no report
\* request has been sent
C5_Witness ==
    /\ AnalysisStartedOk
    /\ lastReport.phase = "idle"
    /\ InFlight("handleGetReport") = {}
    /\ lastStep.action = "SettleTrigger"

UserActions ==
    {"ClickTriggerAgents", "ClickGetReport", "UseApiMount", "UseApiEndpointChange"}

\* C6: no retry: the step in which a request fails sends nothing; a request is sent
\* only by a step that serves a click (or, for useApi, the mount or a change of
\* endpoint), one request per such step; and after a failed trigger or report
\* request none of that kind is in flight until the next click.
C6_NoRetry ==
    /\ lastStep.failed => lastStep.sent = <<>>
    /\ lastStep.sent # <<>> => (lastStep.action \in UserActions /\ Len(lastStep.sent) = 1)
    /\ (lastTrigger.phase = "settled" /\ lastTrigger.outcome.kind = "rejected") =>
           InFlight("handleTriggerAgents") = {}
    /\ (lastReport.phase = "settled" /\ lastReport.outcome.kind = "rejected") =>
           InFlight("handleGetReport") = {}

\* a trigger request has just failed
C6_Witness ==
    /\ lastStep.action = "SettleTrigger"
    /\ lastStep.failed
    /\ lastTrigger.phase = "settled"
    /\ lastTrigger.outcome.kind = "rejected"

C7_PageAsWritten(loc) ==
    IF loc.trailingSlash THEN "NotFound"
    ELSE CASE loc.segments = <<>>               -> "Dashboard"
           [] loc.segments = <<"interns">>      -> "Interns"
           [] loc.segments = <<"team-members">> -> "TeamMembers"
           [] loc.segments = <<"managers">>     -> "Managers"
           [] OTHER                             -> "NotFound"

\* the page a pathname names when letter case and a trailing slash are disregarded
C7_Page(loc) ==
    LET q == [i \in DOMAIN loc.segments |-> LowerSegment(loc.segments[i])]
    IN  CASE q = <<>>               -> "Dashboard"
          [] q = <<"interns">>      -> "Interns"
          [] q = <<"team-members">> -> "TeamMembers"
          [] q = <<"managers">>     -> "Managers"
          [] OTHER                  -> "NotFound"

\* C7 as stated: exactly one page is rendered: '/' Dashboard, '/interns' Interns,
\* '/team-members' TeamMembers, '/managers' Managers, every other pathname NotFound.
C7_OnePagePerPathAsStated == rendered = <<C7_PageAsWritten(location)>>

\* C7 (amended): exactly one page is rendered for every pathname, never two and
\* never none: Dashboard, Interns, TeamMembers or Managers for '/', '/interns',
\* '/team-members', '/managers' written in any letter case and with or without a
\* trailing slash, and NotFound for every other pathname.
C7_OnePagePerPath ==
    /\ Len(rendered) = 1
    /\ rendered = <<C7_Page(location)>>

\* a pathname that differs from '/interns' in case and trailing slash only
C7_Witness ==
    /\ location = [segments |-> <<"Interns">>, trailingSlash |-> TRUE]
    /\ rendered = <<"Interns">>

\* the field of the inner report, where the renderer looks for it
\* (report.report.report.<name>); undefined when it or an enclosing object is missing
C8_Field(name) == OptGet(OptGet(OptGet(report, "report"), "report"), name)

C8_Present(x) == ~IsNullish(x)

C8_NonEmptyList(x) == x.t = "array" /\ x.v # <<>>

C8_ReportShown ==
    /\ lastReport.phase = "settled"
    /\ lastReport.outcome.kind = "resolved"
    /\ report = lastReport.outcome.value

\* C8 as the spec states it: rendering a fetched report never throws, and each
\* section is rendered exactly when its field is present (the list sections:
\* present and non-empty).
C8_RenderedIffPresent ==
    C8_ReportShown =>
        /\ ~View.threw
        /\ \A name \in {"executive_summary", "pr_insights", "meeting_insights"} :
              name \in View.sections <=> C8_Present(C8_Field(name))
        /\ \A name \in {"recommendations", "action_items", "detailed_pr_summaries",
                        "detailed_meeting_summaries"} :
              name \in View.sections <=> C8_NonEmptyList(C8_Field(name))

\* C8: rendering a fetched report never throws, whichever fields and enclosing
\* objects are missing; a section is rendered exactly when its field is truthy --
\* present, not null and not the empty string -- and the list sections when their
\* list is also non-empty.
C8_RenderedIffTruthy ==
    C8_ReportShown =>
        /\ ~View.threw
        /\ \A name \in {"executive_summary", "pr_insights", "meeting_insights"} :
              name \in View.sections <=> Truthy(C8_Field(name))
        /\ \A name \in {"recommendations", "action_items", "detailed_pr_summaries",
                        "detailed_meeting_summaries"} :
              name \in View.sections <=> C8_NonEmptyList(C8_Field(name))

\* a report without its executive summary, with null PR insights and with
\* recommendations has been rendered
C8_Witness ==
    /\ C8_ReportShown
    /\ Truthy(report)
    /\ C8_Field("executive_summary") = Undefined
    /\ C8_Field("pr_insights") = Null
    /\ "recommendations" \in View.sections
    /\ "executive_summary" \notin View.sections
    /\ ~View.threw

\* the fields of ManagerReport.report as the interface declares them
\* (report.report.<name>)
C9_Declared(name) == OptGet(OptGet(report, "report"), name)

\* C9: a fetched report of the declared shape, with its fields directly under
\* report.report, has the sections of its fields rendered.
C9_DeclaredShapeRendersSections ==
    C8_ReportShown =>
        /\ Truthy(C9_Declared("executive_summary"))
              => "executive_summary" \in View.sections
        /\ C8_NonEmptyList(C9_Declared("recommendations"))
              => "recommendations" \in View.sections

\* C10: whenever start-backend.sh launches uvicorn, it launches it with the python
\* of backend/venv or backend/env, never with the system Python.
C10_LaunchesVenvPython ==
    sh.pc = "running" => sh.launched \in {"venv", "env"}

\* C11: start-sam.sh executes `sam run` only when sam/ exists, sam is available in
\* the activated sam/.venv and both configs exist; otherwise it exits with status 1
\* without starting SAM; a missing .env only produces a warning.
C11_SamRunsOnlyFromVenv ==
    LET ready == /\ sam.samDir
                 /\ sam.activated /\ sam.venv = "sam"
                 /\ sam.webui /\ sam.orchestrator
    IN  /\ sam.pc = "running" => ready /\ sam.started = "venv"
        /\ sam.pc = "exited" => ~ready /\ sam.status = 1 /\ sam.started = "none"

\* a step of the script, as opposed to a write of the running backend
C12_ScriptStep == dev'.pc # dev.pc

\* C12: once the database setup of dev.sh has run, backend/data/squire.db exists;
\* a step of the script creates the file, empty, only when there was none, and
\* leaves an existing database exactly as it was, in every run.
C12_DatabaseKept ==
    /\ [](dev.pc \in {"env", "deps", "serving"} => dev.db.kind # "absent")
    /\ [][ C12_ScriptStep =>
             /\ dev.db.kind # "absent" => dev'.db = dev.db
             /\ dev.db.kind = "absent" => dev'.db \in {NoFile, EmptyFile} ]_vars

\* a later run of dev.sh has gone through the setup with a database holding rows
C12_Witness ==
    /\ dev.runs >= 2
    /\ dev.pc = "serving"
    /\ dev.db.kind = "file"
    /\ dev.db.content # <<>>

\* C13: without the root venv the launcher exits with status 1 having started no
\* agent; with it, the four agents are started in the order of the script, each
\* start possible whatever the earlier agents are doing (no waiting, no join), and
\* the script ends only after all four have been started and have exited.
C13_NoOrderingAmongAgents ==
    /\ ~agents.venv =>
          /\ \A k \in DOMAIN AgentModules : agents.procs[k] = "none"
          /\ agents.pc = "exited" => agents.status = 1
    /\ agents.pc = "launch" => ENABLED StartNextAgent
    /\ \A k \in DOMAIN AgentModules : agents.procs[k] # "none" <=> k < agents.next
    /\ agents.pc = "wait" => agents.next = Len(AgentModules) + 1
    /\ agents.venv /\ agents.pc = "exited" =>
          \A k \in DOMAIN AgentModules : agents.procs[k] \in Ended

\* the launcher is about to start the Join agent while the PR agent has already
\* exited and the Meeting agent is still running
C13_Witness ==
    /\ agents.pc = "launch"
    /\ agents.next = 3
    /\ agents.procs[1] \in Ended
    /\ agents.procs[2] = "running"

\* the data an OK response of the hook's endpoint e carries
C14_DataOf(e) == Str(<<"data of ", e>>)

\* C14: useApi applies responses in arrival order and cancels nothing: a change of
\* endpoint leaves the earlier requests in flight, and every response that arrives
\* is applied to the hook's state whatever the current endpoint is -- a success
\* replaces data and clears error, a failure sets error and keeps data -- so the
\* state after the last arrival is the one that arrival wrote.
C14_ArrivalOrder ==
    [][ /\ lastStep'.action = "UseApiEndpointChange" /\ net' # net
            => SubSeq(net', 1, Len(net)) = net
        /\ lastStep'.action = "SettleUseApi" /\ net' # net
            => \E i \in InFlight("useApi") :
                 /\ net' = RemoveAt(net, i)
                 /\ hook'.loading = FALSE
                 /\ hook'.endpoint = hook.endpoint
                 /\ IF lastStep'.failed
                    THEN hook'.data = hook.data /\ hook'.error.t = "error"
                    ELSE /\ hook'.error = Null
                         /\ hook'.data = C14_DataOf(net[i].req.endpoint) ]_vars

\* every request has settled, the last arrival was a success, and the data shown
\* for the current endpoint is that of the superseded one
C14_Witness ==
    /\ InFlight("useApi") = {}
    /\ lastStep.action = "SettleUseApi"
    /\ ~lastStep.failed
    /\ hook.endpoint = "/api/b"
    /\ hook.data = C14_DataOf("/api/a")
    /\ hook.error = Null
    /\ ~hook.loading

\* C15: at most one request of each button is in flight; isLoading is true exactly
\* while the trigger request is in flight and isLoadingReport exactly while the
\* report request is, and a button can be clicked exactly when its flag is false.
C15_OneRequestPerButton ==
    /\ Cardinality(InFlight("handleTriggerAgents")) <= 1
    /\ Cardinality(InFlight("handleGetReport")) <= 1
    /\ isLoading <=> InFlight("handleTriggerAgents") # {}
    /\ isLoadingReport <=> InFlight("handleGetReport") # {}
    /\ ENABLED ClickTriggerAgents <=> ~isLoading
    /\ variant = "analysis" => (ENABLED ClickGetReport <=> ~isLoadingReport)

\* both buttons have been clicked and both requests are in flight
C15_Witness ==
    /\ isLoading
    /\ isLoadingReport
    /\ InFlight("handleTriggerAgents") # {}
    /\ InFlight("handleGetReport") # {}
    /\ ~ENABLED ClickTriggerAgents

C16_NoResults == prResult = Null /\ meetingResult = Null /\ managerResult = Null

\* C16: in every reachable state of the Dashboard, error is non-null only if the
\* three results are null, and reportError is non-null only if report is null.
C16_NoPartialFailure ==
    /\ error # Null => C16_NoResults
    /\ reportError # Null => report = Null

\* both workflows have failed: each error is shown, with no result and no report
C16_Witness ==
    /\ TriggerFailed
    /\ error # Null
    /\ C16_NoResults
    /\ lastReport.phase = "settled"
    /\ lastReport.outcome.kind = "rejected"
    /\ reportError # Null
    /\ report = Null

\* C17: when every request sent eventually settles, a flag that is true eventually
\* returns to false with its button enabled again; the step on which a request
\* settles, resolved or rejected, is the one that sets the flag to false.
C17_LoadingEnds ==
    /\ isLoading ~> (~isLoading /\ ~TriggerDisabled)
    /\ isLoadingReport ~> (~isLoadingReport /\ ~ReportDisabled)
    /\ [][ /\ lastTrigger.phase = "pending" /\ lastTrigger'.phase = "settled"
               => isLoading /\ ~isLoading'
           /\ lastReport.phase = "pending" /\ lastReport'.phase = "settled"
               => isLoadingReport /\ ~isLoadingReport' ]_vars

\* a trigger request has been rejected and a report request has resolved, and
\* neither flag is set any more
C17_Witness ==
    /\ TriggerFailed
    /\ ~isLoading
    /\ lastReport.phase = "settled"
    /\ lastReport.outcome.kind = "resolved"
    /\ ~isLoadingReport

\* C18: a step of handleGetReport (the click, or the settling of its request)
\* leaves isLoading, error, prResult, meetingResult and managerResult as they are,
\* and a step of handleTriggerAgents leaves isLoadingReport, report and reportError
\* as they are, in every interleaving.
C18_WorkflowsIndependent ==
    [][ /\ lastStep'.action \in {"ClickGetReport", "SettleReport"}
            => UNCHANGED <<isLoading, error, prResult, meetingResult, managerResult>>
        /\ lastStep'.action \in {"ClickTriggerAgents", "SettleTrigger"}
            => UNCHANGED <<isLoadingReport, report, reportError>> ]_vars

\* the report request, sent while a failed trigger's error was shown, has settled
\* and the error is still shown
C18_Witness ==
    /\ lastStep.action = "SettleReport"
    /\ report # Null
    /\ TriggerFailed
    /\ error # Null

\* marker occurs in t, letters compared without regard to case
C19_Contains(t, marker) ==
    \E k \in 0..(Len(t) - Len(marker)) :
        \A j \in 1..Len(marker) : LowerChar(t[k + j]) = marker[j]

\* POST /api/agents/trigger has resolved with an object whose result is a text or
\* is missing
C19_Triggered ==
    /\ variant = "agents"
    /\ lastTrigger.phase = "settled"
    /\ lastTrigger.outcome.kind = "resolved"
    /\ lastTrigger.outcome.value.t = "object"
    /\ Get(lastTrigger.outcome.value, "result").t \in {"string", "undefined"}

\* the result text; a missing result is the empty text
C19_Text ==
    LET result == Get(lastTrigger.outcome.value, "result")
    IN  IF result.t = "string" THEN result.v ELSE <<>>

\* C19: after a successful POST /api/agents/trigger with result text t, prResult and
\* meetingResult are both 'hello world' iff t contains 'hello world' in any case,
\* managerResult is 'world hello' iff t contains 'world hello' in any case, and when
\* t contains neither, prResult is t verbatim and the other two stay null; a missing
\* result counts as the empty text.
C19_ResultParsing ==
    C19_Triggered =>
        LET hw == C19_Contains(C19_Text, HelloWorld)
            wh == C19_Contains(C19_Text, WorldHello)
        IN  /\ (prResult = Str(HelloWorld) /\ meetingResult = Str(HelloWorld)) <=> hw
            /\ managerResult = Str(WorldHello) <=> wh
            /\ ~hw /\ ~wh =>
                  prResult = Str(C19_Text) /\ meetingResult = Null /\ managerResult = Null
            /\ error = Null

\* a result text in mixed case holding both markers has been parsed
C19_Witness ==
    /\ C19_Triggered
    /\ C19_Text # ToLowerCase(C19_Text)
    /\ prResult = Str(HelloWorld)
    /\ meetingResult = Str(HelloWorld)
    /\ managerResult = Str(WorldHello)

\* a run of handleTriggerAgents has completed and no other has started
C20_RunCompleted ==
    /\ variant = "agents"
    /\ lastTrigger.phase = "settled"
    /\ ~isLoading

\* C20: once the request of handleTriggerAgents has settled, the Dashboard displays
\* the error box or at least one result panel.
C20_VisibleFeedback ==
    C20_RunCompleted => ErrorBoxShown \/ PrPanelShown \/ ManagerPanelShown

\* the structured sections of the Manager Report that the current view holds
C21_Structured ==
    View.sections \cap { ReportFields[k] : k \in DOMAIN ReportFields }

C21_RawShown == "raw_json" \in View.sections

C22_Min(a, b) == IF a < b THEN a ELSE b

\* the detailed meeting summaries of the report on display
C22_Meetings ==
    IF "detailed_meeting_summaries" \in View.sections
    THEN C8_Field("detailed_meeting_summaries").v
    ELSE <<>>

\* the action items a value carries: none when it is absent or not a list
C22_Items(x) == IF x.t = "array" THEN x.v ELSE <<>>

\* C22: for each detailed meeting summary on display, the action items listed are
\* the first min(5, n) of its n action items in their order, and none when the list
\* is absent or empty; the top-level Action Items section lists all its items and
\* its badge is their count.
C22_ActionItemsShown ==
    C8_ReportShown =>
        /\ \A k \in DOMAIN C22_Meetings :
              LET items  == C22_Items(Get(C22_Meetings[k], "action_items"))
                  listed == MeetingItemsListed(C22_Meetings[k])
              IN  /\ Len(listed) = C22_Min(5, Len(items))
                  /\ \A j \in DOMAIN listed : listed[j] = items[j]
        /\ "meeting_action_items" \in View.sections <=>
              \E k \in DOMAIN C22_Meetings :
                  C22_Items(Get(C22_Meetings[k], "action_items")) # <<>>
        /\ "action_items" \in View.sections =>
              /\ ActionItemsListed(report) = C22_Items(C8_Field("action_items"))
              /\ ActionItemsBadge(report) = Num(Len(C22_Items(C8_Field("action_items"))))

\* a report on display has a meeting summary with more than five action items, one
\* with an empty list, and a top-level Action Items section with two items
C22_Witness ==
    /\ C8_ReportShown
    /\ \E k \in DOMAIN C22_Meetings :
          /\ Len(C22_Items(Get(C22_Meetings[k], "action_items"))) > 5
          /\ Len(MeetingItemsListed(C22_Meetings[k])) = 5
    /\ \E k \in DOMAIN C22_Meetings :
          /\ Get(C22_Meetings[k], "action_items") = Arr(<<>>)
          /\ MeetingItemsListed(C22_Meetings[k]) = <<>>
    /\ "action_items" \in View.sections
    /\ Len(ActionItemsListed(report)) = 2

=============================================================================
